---- MODULE Spec2Model ----
(***************************************************************************)
(* Model of the shopping-list page script (src/script.js).                 *)
(*                                                                         *)
(* The page keeps one list in three places: the <li> children of           *)
(* #item-list (the display), the JSON text stored in localStorage under    *)
(* the key "items", and the edit-mode flag together with the "edit-mode"   *)
(* class on one <li>.  Each event handler of the script is one action.     *)
(*                                                                         *)
(* A text is a sequence of one-character strings, so that toLowerCase,     *)
(* String.includes and the JSON encoding are computed character by         *)
(* character.  The characters used need no JSON escape.                    *)
(***************************************************************************)
EXTENDS Naturals, Sequences, FiniteSets

\* Largest number of <li> elements the display may hold.
MaxItems == 2

\* Texts the user may type into #item-input.
Texts == { <<>>, <<" ">>, <<"M", "i">>, <<"m", "i">> }

\* Texts the user may type into #filter.
Queries == { <<>>, <<"I">>, <<" ">> }

VARIABLES
  storage,      \* localStorage entry "items": absent, or its string value
  itemList,     \* the <li> children of #item-list, in document order
  itemInput,    \* itemInput.value
  filterValue,  \* itemFilter.value
  clearHidden,  \* clearBtn carries the class "hidden"
  filterHidden, \* itemFilter carries the class "hidden"
  formBtn,      \* label of the form's button
  isEditMode,   \* the script's isEditMode flag
  alertMsg,     \* the message the last handler showed with alert(), or ""
  threw,        \* the last handler ended with an uncaught exception
  lastEvent     \* the event the last handler was run for

vars == << storage, itemList, itemInput, filterValue, clearHidden,
           filterHidden, formBtn, isEditMode, alertMsg, threw, lastEvent >>

----------------------------------------------------------------------------
(* Strings *)

LowerChar(c) ==
  CASE c = "M" -> "m"
    [] c = "I" -> "i"
    [] OTHER   -> c

\* String.prototype.toLowerCase
toLowerCase(s) == [k \in 1..Len(s) |-> LowerChar(s[k])]

\* String.prototype.includes: t occurs in s as a contiguous substring
includes(s, t) ==
  \E k \in 0..Len(s) :
     /\ k + Len(t) <= Len(s)
     /\ SubSeq(s, k + 1, k + Len(t)) = t

\* Array.prototype.includes
arrayIncludes(arr, x) == \E k \in 1..Len(arr) : arr[k] = x

----------------------------------------------------------------------------
(* JSON text of an array of strings *)

Quote == "\""

RECURSIVE JoinQuoted(_)
JoinQuoted(arr) ==
  IF arr = <<>> THEN <<>>
  ELSE IF Len(arr) = 1 THEN <<Quote>> \o arr[1] \o <<Quote>>
  ELSE <<Quote>> \o arr[1] \o <<Quote, ",">> \o JoinQuoted(Tail(arr))

\* JSON.stringify of an array of strings
JSONstringify(arr) == <<"[">> \o JoinQuoted(arr) \o <<"]">>

\* Index of the first Quote in s at or after position k, 0 when there is none
RECURSIVE ClosingQuote(_, _)
ClosingQuote(s, k) ==
  IF k > Len(s) THEN 0
  ELSE IF s[k] = Quote THEN k
  ELSE ClosingQuote(s, k + 1)

\* Elements of a JSON array from position k of s on, k being where an
\* element must start; acc holds the elements read so far.
RECURSIVE ParseElements(_, _, _)
ParseElements(s, k, acc) ==
  IF k > Len(s) \/ s[k] # Quote THEN [threw |-> TRUE, value |-> <<>>]
  ELSE LET close == ClosingQuote(s, k + 1) IN
       IF close = 0 \/ close = Len(s) THEN [threw |-> TRUE, value |-> <<>>]
       ELSE LET elem == SubSeq(s, k + 1, close - 1)
                next == s[close + 1]
            IN  IF next = "]" /\ close + 1 = Len(s)
                  THEN [threw |-> FALSE, value |-> Append(acc, elem)]
                ELSE IF next = ","
                  THEN ParseElements(s, close + 2, Append(acc, elem))
                ELSE [threw |-> TRUE, value |-> <<>>]

\* JSON.parse of a text that should hold an array of strings: the array, or
\* threw when the text is no such array (a SyntaxError in the script).
JSONparse(s) ==
  IF Len(s) < 2 \/ s[1] # "[" THEN [threw |-> TRUE, value |-> <<>>]
  ELSE IF s = <<"[", "]">> THEN [threw |-> FALSE, value |-> <<>>]
  ELSE ParseElements(s, 2, <<>>)

----------------------------------------------------------------------------
(* localStorage *)

\* localStorage.getItem("items") === null
NoEntry == [present |-> FALSE, value |-> <<>>]

\* localStorage.setItem("items", text)
setItem(text) == [present |-> TRUE, value |-> text]

getItemsFromStorage(st) ==
  IF ~st.present THEN [threw |-> FALSE, value |-> <<>>]
  ELSE JSONparse(st.value)

\* addItemToStorage with unshift in place of push
addItemToStorageFront(st, item) ==
  LET got == getItemsFromStorage(st) IN
  IF got.threw THEN [threw |-> TRUE, storage |-> st]
  ELSE [threw |-> FALSE,
        storage |-> setItem(JSONstringify(<<item>> \o got.value))]

addItemToStorage(st, item) ==
  LET got == getItemsFromStorage(st) IN
  IF got.threw THEN [threw |-> TRUE, storage |-> st]
  ELSE [threw |-> FALSE,
        storage |-> setItem(JSONstringify(Append(got.value, item)))]

removeItemFromStorage(st, item) ==
  LET got == getItemsFromStorage(st) IN
  IF got.threw THEN [threw |-> TRUE, storage |-> st]
  ELSE [threw |-> FALSE,
        storage |-> setItem(JSONstringify(
                      SelectSeq(got.value, LAMBDA i : i # item)))]

\* checkIfItemExists comparing the texts as stored, without toLowerCase
checkIfItemExistsExact(st, item) ==
  LET got == getItemsFromStorage(st) IN
  IF got.threw THEN [threw |-> TRUE, value |-> FALSE]
  ELSE [threw |-> FALSE, value |-> arrayIncludes(got.value, item)]

checkIfItemExists(st, item) ==
  LET got == getItemsFromStorage(st) IN
  IF got.threw THEN [threw |-> TRUE, value |-> FALSE]
  ELSE LET lowered == [k \in 1..Len(got.value) |-> toLowerCase(got.value[k])]
       IN  [threw |-> FALSE, value |-> arrayIncludes(lowered, toLowerCase(item))]

----------------------------------------------------------------------------
(* The display *)

\* A new <li>: its text, no "edit-mode" class, no inline display style
NewLi(item) == [text |-> item, editMode |-> FALSE, display |-> ""]

addItemToDOM(list, item) == Append(list, NewLi(item))

\* Element.remove() of the k-th <li>
RemoveAt(list, k) ==
  [j \in 1..(Len(list) - 1) |-> IF j < k THEN list[j] ELSE list[j + 1]]

\* itemList.querySelector(".edit-mode"): the first marked <li>, 0 for null
querySelectorEditMode(list) ==
  IF \E k \in 1..Len(list) : list[k].editMode
  THEN CHOOSE k \in 1..Len(list) :
         /\ list[k].editMode
         /\ \A j \in 1..(k - 1) : ~list[j].editMode
  ELSE 0

AddLabel == "Add Item"
UpdateLabel == "Update Item"

\* checkUI, run when the display holds list
checkUI(list) ==
  /\ itemInput' = <<>>
  /\ clearHidden' = (Len(list) = 0)
  /\ filterHidden' = (Len(list) = 0)
  /\ formBtn' = AddLabel
  /\ isEditMode' = FALSE

\* The event a handler runs for: its kind, the <li> it was fired on, the <li>
\* that carried the edit mark when it was fired (for a submit: the <li> being
\* edited, 0 in Idle), and the answer to confirm().
Event(type, target, was, confirmed) ==
  [type |-> type, target |-> target, was |-> was, confirmed |-> confirmed]

----------------------------------------------------------------------------
(* Page load *)

\* displayItems on an empty display: one new <li> per stored item, in order
displayItems(st) ==
  LET got == getItemsFromStorage(st) IN
  [threw |-> got.threw,
   list  |-> [k \in 1..Len(got.value) |-> NewLi(got.value[k])]]

\* The state once the script has run on a freshly loaded document whose
\* localStorage entry is st.  init registers the listeners, calls
\* displayItems and then checkUI; an exception in displayItems leaves init
\* before checkUI runs, with the controls as the document declares them.
init(st) ==
  LET shown == displayItems(st) IN
  [ storage      |-> st,
    itemList     |-> shown.list,
    itemInput    |-> <<>>,
    filterValue  |-> <<>>,
    clearHidden  |-> IF shown.threw THEN FALSE ELSE Len(shown.list) = 0,
    filterHidden |-> IF shown.threw THEN FALSE ELSE Len(shown.list) = 0,
    formBtn      |-> AddLabel,
    isEditMode   |-> FALSE,
    alertMsg     |-> "",
    threw        |-> shown.threw,
    lastEvent    |-> Event("load", 0, 0, FALSE) ]

StateIs(r) ==
  /\ storage = r.storage
  /\ itemList = r.itemList
  /\ itemInput = r.itemInput
  /\ filterValue = r.filterValue
  /\ clearHidden = r.clearHidden
  /\ filterHidden = r.filterHidden
  /\ formBtn = r.formBtn
  /\ isEditMode = r.isEditMode
  /\ alertMsg = r.alertMsg
  /\ threw = r.threw
  /\ lastEvent = r.lastEvent

\* First visit: nothing was ever stored.
Init == StateIs(init(NoEntry))

\* The user reloads the page: the document and the script start afresh,
\* localStorage is kept.
Reload ==
  LET r == init(storage) IN
  /\ storage' = r.storage
  /\ itemList' = r.itemList
  /\ itemInput' = r.itemInput
  /\ filterValue' = r.filterValue
  /\ clearHidden' = r.clearHidden
  /\ filterHidden' = r.filterHidden
  /\ formBtn' = r.formBtn
  /\ isEditMode' = r.isEditMode
  /\ alertMsg' = r.alertMsg
  /\ threw' = r.threw
  /\ lastEvent' = r.lastEvent

----------------------------------------------------------------------------
(* Event handlers *)

\* The user types text into #item-input; the script has no handler for it.
TypeInput(text) ==
  /\ itemInput' = text
  /\ alertMsg' = ""
  /\ threw' = FALSE
  /\ lastEvent' = Event("input", 0, 0, FALSE)
  /\ UNCHANGED << storage, itemList, filterValue, clearHidden, filterHidden,
                  formBtn, isEditMode >>

\* The validation written as newItem === null, which no input value meets
IsNullInput(newItem) == FALSE

\* The validation of onAddItemSubmit: newItem === ""
IsEmptyInput(newItem) == newItem = <<>>

\* A handler that returns, or is left by an exception, before it changed
\* anything.
Aborted(msg, exc) ==
  /\ alertMsg' = msg
  /\ threw' = exc
  /\ UNCHANGED << storage, itemList, itemInput, filterValue, clearHidden,
                  filterHidden, formBtn, isEditMode >>

\* The tail of onAddItemSubmit: addItemToDOM, addItemToStorage, checkUI and
\* the clearing of the input, from display list and storage entry st.
AddAndRefresh(list, st, newItem) ==
  LET shown  == addItemToDOM(list, newItem)
      stored == addItemToStorage(st, newItem)
  IN  /\ itemList' = shown
      /\ storage' = stored.storage
      /\ alertMsg' = ""
      /\ threw' = stored.threw
      /\ UNCHANGED filterValue
      /\ IF stored.threw
           THEN /\ isEditMode' = FALSE
                /\ UNCHANGED << itemInput, clearHidden, filterHidden, formBtn >>
           ELSE checkUI(shown)

\* onAddItemSubmit with the edit-mode removal placed before the validation
onAddItemSubmitRemovingFirst ==
  LET newItem == itemInput
      k == querySelectorEditMode(itemList)
  IN
  /\ lastEvent' = Event("submit", 0, IF isEditMode THEN k ELSE 0, FALSE)
  /\ IF isEditMode /\ k # 0 /\ IsEmptyInput(newItem) THEN
          /\ storage' = removeItemFromStorage(storage, itemList[k].text).storage
          /\ itemList' = RemoveAt(itemList, k)
          /\ isEditMode' = FALSE
          /\ alertMsg' = "Please add an item"
          /\ threw' = FALSE
          /\ UNCHANGED << itemInput, filterValue, clearHidden, filterHidden,
                          formBtn >>
     ELSE IF IsEmptyInput(newItem) THEN Aborted("Please add an item", FALSE)
     ELSE IF isEditMode THEN
       IF k = 0 THEN Aborted("", TRUE)
       ELSE LET removed == removeItemFromStorage(storage, itemList[k].text) IN
            IF removed.threw THEN Aborted("", TRUE)
            ELSE AddAndRefresh(RemoveAt(itemList, k), removed.storage, newItem)
     ELSE LET exists == checkIfItemExists(storage, newItem) IN
          IF exists.threw THEN Aborted("", TRUE)
          ELSE IF exists.value THEN Aborted("Item already exists", FALSE)
          ELSE /\ Len(itemList) < MaxItems
               /\ AddAndRefresh(itemList, storage, newItem)

\* submit on #item-form
onAddItemSubmit ==
  LET newItem == itemInput IN
  /\ lastEvent' = Event("submit", 0,
                     IF isEditMode THEN querySelectorEditMode(itemList) ELSE 0,
                     FALSE)
  /\ IF IsEmptyInput(newItem) THEN Aborted("Please add an item", FALSE)
     ELSE IF isEditMode THEN
       LET k == querySelectorEditMode(itemList) IN
       IF k = 0 THEN Aborted("", TRUE)
       ELSE LET removed == removeItemFromStorage(storage, itemList[k].text) IN
            IF removed.threw THEN Aborted("", TRUE)
            ELSE AddAndRefresh(RemoveAt(itemList, k), removed.storage, newItem)
     ELSE LET exists == checkIfItemExists(storage, newItem) IN
          IF exists.threw THEN Aborted("", TRUE)
          ELSE IF exists.value THEN Aborted("Item already exists", FALSE)
          ELSE /\ Len(itemList) < MaxItems
               /\ AddAndRefresh(itemList, storage, newItem)

\* setItemToEdit without the loop that removes "edit-mode" from every <li>
setItemToEditKeepingMarks(k) ==
  /\ k \in 1..Len(itemList)
  /\ itemList[k].display # "none"
  /\ isEditMode' = TRUE
  /\ itemList' = [itemList EXCEPT ![k].editMode = TRUE]
  /\ formBtn' = UpdateLabel
  /\ itemInput' = itemList[k].text
  /\ alertMsg' = ""
  /\ threw' = FALSE
  /\ lastEvent' = Event("edit", k, querySelectorEditMode(itemList), FALSE)
  /\ UNCHANGED << storage, filterValue, clearHidden, filterHidden >>

\* setItemToEdit written with classList.toggle: a click on the <li> that is
\* being edited takes its mark off and leaves edit mode
setItemToEditToggling(k) ==
  /\ k \in 1..Len(itemList)
  /\ itemList[k].display # "none"
  /\ isEditMode' = ~itemList[k].editMode
  /\ itemList' = [j \in 1..Len(itemList) |->
                    [itemList[j] EXCEPT !.editMode =
                       (j = k /\ ~itemList[k].editMode)]]
  /\ formBtn' = UpdateLabel
  /\ itemInput' = itemList[k].text
  /\ alertMsg' = ""
  /\ threw' = FALSE
  /\ lastEvent' = Event("edit", k, querySelectorEditMode(itemList), FALSE)
  /\ UNCHANGED << storage, filterValue, clearHidden, filterHidden >>

\* click on the body of the k-th <li>
setItemToEdit(k) ==
  /\ k \in 1..Len(itemList)
  /\ itemList[k].display # "none"
  /\ isEditMode' = TRUE
  /\ itemList' = [j \in 1..Len(itemList) |->
                    [itemList[j] EXCEPT !.editMode = (j = k)]]
  /\ formBtn' = UpdateLabel
  /\ itemInput' = itemList[k].text
  /\ alertMsg' = ""
  /\ threw' = FALSE
  /\ lastEvent' = Event("edit", k, querySelectorEditMode(itemList), FALSE)
  /\ UNCHANGED << storage, filterValue, clearHidden, filterHidden >>

\* removeItem that removes whatever confirm() answers
removeItemUnasked(k, ok) ==
  /\ k \in 1..Len(itemList)
  /\ itemList[k].display # "none"
  /\ lastEvent' = Event("remove", k, 0, ok)
  /\ LET shown   == RemoveAt(itemList, k)
         removed == removeItemFromStorage(storage, itemList[k].text)
     IN  /\ itemList' = shown
         /\ storage' = removed.storage
         /\ alertMsg' = ""
         /\ threw' = removed.threw
         /\ UNCHANGED filterValue
         /\ IF removed.threw
              THEN UNCHANGED << itemInput, clearHidden, filterHidden,
                                formBtn, isEditMode >>
              ELSE checkUI(shown)

\* removeItem that refreshes the controls but leaves isEditMode as it is
removeItemKeepingEditMode(k, ok) ==
  /\ k \in 1..Len(itemList)
  /\ itemList[k].display # "none"
  /\ lastEvent' = Event("remove", k, 0, ok)
  /\ IF ~ok THEN Aborted("", FALSE)
     ELSE LET shown   == RemoveAt(itemList, k)
              removed == removeItemFromStorage(storage, itemList[k].text)
          IN  /\ itemList' = shown
              /\ storage' = removed.storage
              /\ alertMsg' = ""
              /\ threw' = removed.threw
              /\ UNCHANGED << filterValue, isEditMode >>
              /\ IF removed.threw
                   THEN UNCHANGED << itemInput, clearHidden, filterHidden,
                                     formBtn >>
                   ELSE /\ itemInput' = <<>>
                        /\ clearHidden' = (Len(shown) = 0)
                        /\ filterHidden' = (Len(shown) = 0)
                        /\ formBtn' = AddLabel

\* click on the remove button of the k-th <li>; ok is the answer to confirm()
removeItem(k, ok) ==
  /\ k \in 1..Len(itemList)
  /\ itemList[k].display # "none"
  /\ lastEvent' = Event("remove", k, 0, ok)
  /\ IF ~ok THEN Aborted("", FALSE)
     ELSE LET shown   == RemoveAt(itemList, k)
              removed == removeItemFromStorage(storage, itemList[k].text)
          IN  /\ itemList' = shown
              /\ storage' = removed.storage
              /\ alertMsg' = ""
              /\ threw' = removed.threw
              /\ UNCHANGED filterValue
              /\ IF removed.threw
                   THEN UNCHANGED << itemInput, clearHidden, filterHidden,
                                     formBtn, isEditMode >>
                   ELSE checkUI(shown)

\* clearItems without localStorage.removeItem
clearItemsDisplayOnly ==
  /\ itemList' = <<>>
  /\ checkUI(<<>>)
  /\ alertMsg' = ""
  /\ threw' = FALSE
  /\ lastEvent' = Event("clear", 0, 0, FALSE)
  /\ UNCHANGED << storage, filterValue >>

\* click on #clear
clearItems ==
  /\ itemList' = <<>>
  /\ storage' = NoEntry
  /\ checkUI(<<>>)
  /\ alertMsg' = ""
  /\ threw' = FALSE
  /\ lastEvent' = Event("clear", 0, 0, FALSE)
  /\ UNCHANGED filterValue

\* filterItems that only hides: an <li> an earlier filter hid stays hidden
filterItemsNarrowing(query) ==
  LET targetItem == toLowerCase(query) IN
  /\ filterValue' = query
  /\ itemList' = [j \in 1..Len(itemList) |->
                    [itemList[j] EXCEPT !.display =
                       IF includes(toLowerCase(itemList[j].text), targetItem)
                       THEN itemList[j].display ELSE "none"]]
  /\ alertMsg' = ""
  /\ threw' = FALSE
  /\ lastEvent' = Event("filter", 0, 0, FALSE)
  /\ UNCHANGED << storage, itemInput, clearHidden, filterHidden, formBtn,
                  isEditMode >>

\* filterItems that removes the <li> elements that do not match instead of
\* hiding them
filterItemsRemoving(query) ==
  LET targetItem == toLowerCase(query) IN
  /\ filterValue' = query
  /\ itemList' = SelectSeq(itemList,
                   LAMBDA li : includes(toLowerCase(li.text), targetItem))
  /\ alertMsg' = ""
  /\ threw' = FALSE
  /\ lastEvent' = Event("filter", 0, 0, FALSE)
  /\ UNCHANGED << storage, itemInput, clearHidden, filterHidden, formBtn,
                  isEditMode >>

\* input on #filter, the user having typed query
filterItems(query) ==
  LET targetItem == toLowerCase(query) IN
  /\ filterValue' = query
  /\ itemList' = [j \in 1..Len(itemList) |->
                    [itemList[j] EXCEPT !.display =
                       IF includes(toLowerCase(itemList[j].text), targetItem)
                       THEN "flex" ELSE "none"]]
  /\ alertMsg' = ""
  /\ threw' = FALSE
  /\ lastEvent' = Event("filter", 0, 0, FALSE)
  /\ UNCHANGED << storage, itemInput, clearHidden, filterHidden, formBtn,
                  isEditMode >>

Next ==
  \/ Reload
  \/ \E text \in Texts : TypeInput(text)
  \/ onAddItemSubmit
  \/ \E k \in 1..MaxItems : setItemToEdit(k)
  \/ \E k \in 1..MaxItems, ok \in BOOLEAN : removeItem(k, ok)
  \/ clearItems
  \/ \E query \in Queries : filterItems(query)

Spec == Init /\ [][Next]_vars

\* Values of the entry "items" that JSON.parse rejects: a bare text and a
\* truncated array, as another script of the origin or an interrupted
\* write may leave them.
CorruptEntries == { <<"M", "i">>, <<"[", Quote, "M", "i">> }

\* A visit that finds an unreadable entry.
InitCorrupt == \E text \in CorruptEntries : StateIs(init(setItem(text)))

SpecCorrupt == InitCorrupt /\ [][Next]_vars

----------------------------------------------------------------------------
(* Vocabulary of the properties *)

\* The sequence persisted under "items"
Stored == getItemsFromStorage(storage).value

\* The texts the display shows, in order
TextsOf(list) == [k \in 1..Len(list) |-> list[k].text]
Shown == TextsOf(itemList)

\* Positions of the <li> elements that carry the class "edit-mode"
MarkedIn(list) == {k \in 1..Len(list) : list[k].editMode}
Marked == MarkedIn(itemList)

\* text is stored, ignoring case
StoredIgnoringCase(text) ==
  \E k \in 1..Len(Stored) : toLowerCase(Stored[k]) = toLowerCase(text)

\* arr without its first element equal to x
RECURSIVE RemoveFirst(_, _)
RemoveFirst(arr, x) ==
  IF arr = <<>> THEN <<>>
  ELSE IF Head(arr) = x THEN Tail(arr)
  ELSE <<Head(arr)>> \o RemoveFirst(Tail(arr), x)

\* String.prototype.trim for the one whitespace character of Texts
RECURSIVE TrimLeft(_)
TrimLeft(s) == IF s # <<>> /\ Head(s) = " " THEN TrimLeft(Tail(s)) ELSE s
RECURSIVE TrimRight(_)
TrimRight(s) ==
  IF s # <<>> /\ s[Len(s)] = " " THEN TrimRight(SubSeq(s, 1, Len(s) - 1)) ELSE s
Trim(s) == TrimRight(TrimLeft(s))

----------------------------------------------------------------------------
(* Properties *)

\* C1: in every reachable state the texts the display shows equal, in order,
\* the sequence persisted under "items": displayItems run on an empty
\* display after a reload shows the list that was shown before it.
C1_ReloadShowsSameList ==
  /\ Shown = Stored
  /\ TextsOf(displayItems(storage).list) = Shown

\* C2: in Idle state, a submit whose text equals a stored item ignoring case
\* shows the duplicate error and changes nothing: the persisted sequence,
\* the display, the edit state and the typed input stay as they were.
C2_DuplicateRejected ==
  [][ ( /\ lastEvent'.type = "submit"
        /\ ~isEditMode
        /\ itemInput # <<>>
        /\ StoredIgnoringCase(itemInput) )
      => ( /\ alertMsg' = "Item already exists"
           /\ ~threw'
           /\ storage' = storage
           /\ itemList' = itemList
           /\ isEditMode' = isEditMode
           /\ formBtn' = formBtn
           /\ itemInput' = itemInput ) ]_vars

\* A duplicate that differs from the stored item in case only was rejected.
C2_Witness ==
  /\ lastEvent.type = "submit"
  /\ alertMsg = "Item already exists"
  /\ ~isEditMode
  /\ StoredIgnoringCase(itemInput)
  /\ ~arrayIncludes(Stored, itemInput)

\* The text of the <li> a submit in edit mode replaces
EditedText == itemList[querySelectorEditMode(itemList)].text

\* C3: a submit of a non-empty text n while editing a stored item t leaves
\* the store as it was with t removed and n appended, the display showing
\* the same sequence, and the session Idle.
C3_EditReplaces ==
  [][ ( /\ lastEvent'.type = "submit"
        /\ isEditMode
        /\ Marked # {}
        /\ itemInput # <<>>
        /\ arrayIncludes(Stored, EditedText) )
      => ( /\ Stored' = Append(RemoveFirst(Stored, EditedText), itemInput)
           /\ Shown' = Stored'
           /\ ~isEditMode' ) ]_vars

\* C4: a confirmed remove drops from the persisted sequence only the first
\* element equal to the removed text; every other element, later equal ones
\* included, stays in place.
C4_RemoveFirstOnly ==
  [][ ( /\ lastEvent'.type = "remove"
        /\ lastEvent'.confirmed
        /\ lastEvent'.target <= Len(itemList) )
      => Stored' = RemoveFirst(Stored, itemList[lastEvent'.target].text) ]_vars

\* C5 as stated: a submit whose text is empty after trimming shows the
\* empty-input error and changes neither store, display nor edit session.
C5_BlankRejected ==
  [][ ( /\ lastEvent'.type = "submit"
        /\ Trim(itemInput) = <<>> )
      => ( /\ alertMsg' = "Please add an item"
           /\ storage' = storage
           /\ itemList' = itemList
           /\ isEditMode' = isEditMode ) ]_vars

\* C5 amended: the input is not trimmed.  A submit of the empty string shows
\* the empty-input error and changes neither store, display, edit session
\* nor input; a submit of whitespace only is not reported as empty.
C5_EmptyRejected ==
  [][ /\ ( /\ lastEvent'.type = "submit"
           /\ itemInput = <<>> )
         => ( /\ alertMsg' = "Please add an item"
              /\ ~threw'
              /\ storage' = storage
              /\ itemList' = itemList
              /\ isEditMode' = isEditMode
              /\ formBtn' = formBtn
              /\ itemInput' = itemInput )
      /\ ( /\ lastEvent'.type = "submit"
           /\ itemInput # <<>>
           /\ Trim(itemInput) = <<>> )
         => alertMsg' # "Please add an item" ]_vars

\* An empty submit was rejected while an item was being edited.
C5_Witness ==
  /\ lastEvent.type = "submit"
  /\ alertMsg = "Please add an item"
  /\ itemInput = <<>>
  /\ isEditMode
  /\ Marked # {}

\* C6: the "clear" and "filter" controls are hidden exactly when the
\* persisted sequence is empty.
C6_HiddenIffStoreEmpty ==
  /\ clearHidden = (Len(Stored) = 0)
  /\ filterHidden = (Len(Stored) = 0)

\* C7: the edit session is absent, or names an item of the persisted list.
C7_EditedItemIsStored ==
  isEditMode =>
    /\ Marked # {}
    /\ \A k \in Marked : arrayIncludes(Stored, itemList[k].text)

\* C8: at most one <li> carries the edit mark, and selecting an item leaves
\* exactly that item marked, whichever item was marked before, with the
\* input holding its text.
C8_OneEditMark ==
  /\ Cardinality(Marked) <= 1
  /\ [][ /\ Cardinality(MarkedIn(itemList')) <= 1
         /\ lastEvent'.type = "edit"
            => ( /\ MarkedIn(itemList') = {lastEvent'.target}
                 /\ isEditMode'
                 /\ lastEvent'.target <= Len(itemList)
                 /\ itemInput' = itemList[lastEvent'.target].text ) ]_vars

\* An item was selected while a different item carried the mark.
C8_Witness ==
  /\ lastEvent.type = "edit"
  /\ lastEvent.was # 0
  /\ lastEvent.was # lastEvent.target
  /\ Marked = {lastEvent.target}

\* C9: a remove the user declines changes nothing.
C9_DeclinedRemoveChangesNothing ==
  [][ ( /\ lastEvent'.type = "remove"
        /\ ~lastEvent'.confirmed )
      => UNCHANGED << storage, itemList, itemInput, filterValue, clearHidden,
                      filterHidden, formBtn, isEditMode >> ]_vars

\* A remove was declined while an item was being edited.
C9_Witness ==
  /\ lastEvent.type = "remove"
  /\ ~lastEvent.confirmed
  /\ isEditMode
  /\ Marked # {}
  /\ itemInput # <<>>

\* C10: a filter event changes neither the persisted sequence, nor the
\* displayed items and their order, nor the edit session.
C10_FilterOnlyTogglesVisibility ==
  [][ lastEvent'.type = "filter"
      => ( /\ storage' = storage
           /\ TextsOf(itemList') = Shown
           /\ MarkedIn(itemList') = Marked
           /\ UNCHANGED << itemInput, clearHidden, filterHidden, formBtn,
                           isEditMode >> ) ]_vars

\* A filter hid one item and kept another while an item was being edited.
C10_Witness ==
  /\ lastEvent.type = "filter"
  /\ isEditMode
  /\ Marked # {}
  /\ \E k \in 1..Len(itemList) : itemList[k].display = "none"
  /\ \E k \in 1..Len(itemList) : itemList[k].display = "flex"

\* t occurs in s from position k + 1 on
OccursAt(s, t, k) ==
  /\ k + Len(t) <= Len(s)
  /\ \A j \in 1..Len(t) : s[k + j] = t[j]

\* The <li> is rendered: its inline style does not hide it
Visible(li) == li.display # "none"

\* C11: right after a filter event an <li> is visible exactly when its text,
\* lower-cased, contains the lower-cased query, whatever an earlier filter
\* left; the empty query shows every <li>.
C11_FilterResult ==
  lastEvent.type = "filter" =>
    /\ \A k \in 1..Len(itemList) :
         Visible(itemList[k]) <=>
           \E p \in 0..Len(itemList[k].text) :
              OccursAt(toLowerCase(itemList[k].text), toLowerCase(filterValue), p)
    /\ filterValue = <<>> => \A k \in 1..Len(itemList) : Visible(itemList[k])

\* The query "I" shows an item that holds "i" and hides one that does not.
C11_Witness ==
  /\ lastEvent.type = "filter"
  /\ filterValue = <<"I">>
  /\ \E k \in 1..Len(itemList) :
       itemList[k].text \in {<<"M", "i">>, <<"m", "i">>} /\ Visible(itemList[k])
  /\ \E k \in 1..Len(itemList) : ~Visible(itemList[k])

\* C12: in Idle state a submit of a non-empty text that matches no stored
\* item ignoring case appends the text to the persisted sequence and to the
\* display, leaves the earlier elements as they were, the session Idle and
\* the input empty.
C12_AddAppends ==
  [][ ( /\ lastEvent'.type = "submit"
        /\ ~isEditMode
        /\ itemInput # <<>>
        /\ ~StoredIgnoringCase(itemInput) )
      => ( /\ Stored' = Append(Stored, itemInput)
           /\ itemList' = Append(itemList, NewLi(itemInput))
           /\ ~isEditMode'
           /\ itemInput' = <<>>
           /\ alertMsg' = ""
           /\ ~threw' ) ]_vars

\* An Idle submit appended a second item to the list.
C12_Witness ==
  /\ lastEvent.type = "submit"
  /\ lastEvent.was = 0
  /\ alertMsg = ""
  /\ Len(Stored) = 2
  /\ Shown = Stored
  /\ itemInput = <<>>

\* C13: a clear leaves the store reading as the empty sequence, the display
\* empty, the controls hidden, the session Idle and the input empty,
\* whatever the state before; a clear right after a clear changes nothing
\* of it, the storage entry included.
C13_ClearIdempotent ==
  [][ lastEvent'.type = "clear"
      => ( /\ ~getItemsFromStorage(storage').threw
           /\ Stored' = <<>>
           /\ itemList' = <<>>
           /\ clearHidden'
           /\ filterHidden'
           /\ ~isEditMode'
           /\ formBtn' = AddLabel
           /\ itemInput' = <<>>
           /\ alertMsg' = ""
           /\ ~threw'
           /\ filterValue' = filterValue
           /\ lastEvent.type = "clear" => storage' = storage ) ]_vars

\* The list was cleared after a filter had been typed.
C13_Witness ==
  /\ lastEvent.type = "clear"
  /\ itemList = <<>>
  /\ Stored = <<>>
  /\ clearHidden
  /\ filterValue # <<>>

\* C14: an unreadable entry under "items" is read as the empty sequence, and
\* no handler that reads the store ends with an uncaught exception.
C14_StorageFailureNotFatal ==
  /\ ~getItemsFromStorage(storage).threw
  /\ ~threw

\* C15: the persisted list never holds two items that are equal ignoring
\* case.
C15_UniqueIgnoringCase ==
  \A j, k \in 1..Len(Stored) :
     j # k => toLowerCase(Stored[j]) # toLowerCase(Stored[k])

\* C16: a submit of the empty text while an item is being edited removes
\* nothing: store and display are as before, the same <li> is marked and
\* the session is still editing it.
C16_FailedEditSubmitKeepsItem ==
  [][ ( /\ lastEvent'.type = "submit"
        /\ isEditMode
        /\ Marked # {}
        /\ itemInput = <<>> )
      => ( /\ alertMsg' = "Please add an item"
           /\ storage' = storage
           /\ TextsOf(itemList') = Shown
           /\ MarkedIn(itemList') = Marked
           /\ isEditMode' ) ]_vars

\* An empty submit failed while a stored item was being edited, and the item
\* is still stored, shown and marked.
C16_Witness ==
  /\ lastEvent.type = "submit"
  /\ lastEvent.was # 0
  /\ alertMsg = "Please add an item"
  /\ isEditMode
  /\ Marked = {lastEvent.was}
  /\ arrayIncludes(Stored, itemList[lastEvent.was].text)

\* C17: while an item t is being edited, every operation other than a
\* successful submit, the selection of another item, the confirmed removal
\* of t and a clear leaves the session editing t; the confirmed removal of
\* another item is among the operations that leave it so.  (A page reload
\* is not counted as an operation.)
C17_SessionEndsOnlyByUpdate ==
  [][ ( /\ isEditMode
        /\ Cardinality(Marked) = 1
        /\ lastEvent'.type \notin {"load", "clear"}
        /\ ~(lastEvent'.type = "submit" /\ itemInput # <<>>)
        /\ ~(lastEvent'.type = "edit" /\ lastEvent'.target \notin Marked)
        /\ ~( /\ lastEvent'.type = "remove"
              /\ lastEvent'.confirmed
              /\ lastEvent'.target \in Marked ) )
      => ( /\ isEditMode'
           /\ Cardinality(MarkedIn(itemList')) = 1
           /\ itemList'[querySelectorEditMode(itemList')].text = EditedText )
    ]_vars

\* C18 as stated: selecting the item that is being edited changes nothing,
\* the text typed in the input included.
C18_ReselectChangesNothing ==
  [][ ( /\ lastEvent'.type = "edit"
        /\ isEditMode
        /\ Marked = {lastEvent'.target} )
      => UNCHANGED << storage, itemList, itemInput, filterValue, clearHidden,
                      filterHidden, formBtn, isEditMode >> ]_vars

\* C18 amended: selecting the item that is being edited leaves the store,
\* the display with its mark, the controls and the session as they were,
\* and sets the input back to the item's text.
C18_ReselectResetsInput ==
  [][ ( /\ lastEvent'.type = "edit"
        /\ isEditMode
        /\ Marked = {lastEvent'.target} )
      => ( /\ UNCHANGED << storage, itemList, filterValue, clearHidden,
                           filterHidden, formBtn, isEditMode >>
           /\ itemInput' = itemList[lastEvent'.target].text ) ]_vars

\* The item that was being edited was selected again.
C18_Witness ==
  /\ lastEvent.type = "edit"
  /\ lastEvent.was = lastEvent.target
  /\ isEditMode
  /\ Marked = {lastEvent.target}
  /\ itemInput = itemList[lastEvent.target].text

\* C19: whenever isEditMode is set exactly one <li> carries the edit mark,
\* and no submit ends with an uncaught exception.
C19_EditSubmitFindsTarget ==
  /\ isEditMode => Cardinality(Marked) = 1
  /\ lastEvent.type = "submit" => ~threw

\* A submit in edit mode found its <li> and replaced it.
C19_Witness ==
  /\ lastEvent.type = "submit"
  /\ lastEvent.was # 0
  /\ alertMsg = ""
  /\ ~threw
  /\ ~isEditMode
  /\ Len(itemList) = 2

\* C20: while isEditMode is not set no <li> carries the edit mark.
C20_NoMarkWhenIdle ==
  ~isEditMode => Marked = {}

====
